---- MODULE Spec2Model ----
(***************************************************************************)
(* A model of the Result library (src/mod.ts): the two constructors ok and *)
(* err, the methods attached to the values they build, and the functions   *)
(* of the Result namespace.                                                *)
(*                                                                         *)
(* Result values are objects with identity, so they live in a heap (a      *)
(* sequence of objects; a reference is an index into it).  Every operation *)
(* is a function from the heap and its arguments to an outcome: it either  *)
(* returns a value or throws one, it may allocate objects, and it leaves a *)
(* log of the callback invocations it made.                                *)
(***************************************************************************)
EXTENDS Integers, Sequences, FiniteSets, TLC

VARIABLES
    heap,       \* the Result objects constructed so far
    last,       \* the call made last: its arguments and its outcome
    promises    \* the outstanding and finished calls of Result.tryAsync

vars == <<heap, last, promises>>

(***************************************************************************)
(* Bounds of the model.                                                    *)
(***************************************************************************)
MaxHeap == 2        \* objects the heap may hold
MaxLen == 2         \* length of an array handed to all/collectErrors/partition
MaxAsync == 2       \* calls of Result.tryAsync
MaxChain == 3       \* objects a chain of calls may build

(***************************************************************************)
(* JavaScript values.  A value is a record of its kind k and its content v.*)
(***************************************************************************)
JNull == [k |-> "null", v |-> 0]
JUndefined == [k |-> "undefined", v |-> 0]
JNum(n) == [k |-> "number", v |-> n]
JStr(s) == [k |-> "string", v |-> s]
JBool(b) == [k |-> "boolean", v |-> b]
JArr(s) == [k |-> "array", v |-> s]
JErrorObj(msg) == [k |-> "Error", v |-> msg]    \* new Error(msg)
JRef(i) == [k |-> "ref", v |-> i]               \* a reference to heap[i]

\* The primitive values a caller passes as payloads, errors and defaults:
\* the falsy values and one truthy one.
Prims == {JNull, JNum(0), JStr(""), JBool(FALSE), JStr("e")}

\* The signals a caller's function throws.
Signals == {JErrorObj("boom")}

\* The messages handed to expect.
Messages == {"must exist"}

IsRef(x) == x.k = "ref"

\* JavaScript's ToBoolean.
Truthy(x) ==
    CASE x.k = "null" -> FALSE
      [] x.k = "undefined" -> FALSE
      [] x.k = "number" -> x.v # 0
      [] x.k = "string" -> x.v # ""
      [] x.k = "boolean" -> x.v
      [] OTHER -> TRUE

NumText(n) == CASE n = 0 -> "0" [] n = 1 -> "1" [] OTHER -> "n"

RECURSIVE JoinJSON(_, _)
\* JSON.stringify(x) as it appears in a template literal.  An Error object has
\* no enumerable own property, so it is rendered "{}"; a Result object is
\* outside what the callers of this model stringify.
JSONStringify(x) ==
    CASE x.k = "null" -> "null"
      [] x.k = "undefined" -> "undefined"
      [] x.k = "number" -> NumText(x.v)
      [] x.k = "string" -> "\"" \o x.v \o "\""
      [] x.k = "boolean" -> (IF x.v THEN "true" ELSE "false")
      [] x.k = "array" -> "[" \o JoinJSON(x.v, 1) \o "]"
      [] OTHER -> "{}"

JoinJSON(s, i) ==
    IF i > Len(s) THEN ""
    ELSE JSONStringify(s[i]) \o (IF i < Len(s) THEN "," ELSE "") \o JoinJSON(s, i + 1)

(***************************************************************************)
(* Outcomes of a call.                                                     *)
(***************************************************************************)
\* kind: "return" or "throw"; val: the value returned or thrown; heap: the heap
\* after the call; log: the invocations of caller-supplied functions, in order;
\* seen: the indices of the array elements the call inspected, in order;
\* arr: the array the call was handed, as the call leaves it.
Return(h, x, lg) ==
    [kind |-> "return", val |-> x, heap |-> h, log |-> lg, seen |-> <<>>, arr |-> <<>>]
Throw(h, x, lg) ==
    [kind |-> "throw", val |-> x, heap |-> h, log |-> lg, seen |-> <<>>, arr |-> <<>>]

(***************************************************************************)
(* The constructors.  `methods` names the set of closures the object       *)
(* literal attaches: those of ok or those of err.                          *)
(***************************************************************************)
\* ok with the payload stored in the wrong slot.
OkObject_swapped(data) ==
    [success |-> TRUE, data |-> JNull, error |-> data, methods |-> "ok"]

OkObject(data) ==
    [success |-> TRUE, data |-> data, error |-> JNull, methods |-> "ok"]

\* err with the closures of ok attached.
ErrObject_okMethods(error) ==
    [success |-> FALSE, data |-> JNull, error |-> error, methods |-> "ok"]

ErrObject(error) ==
    [success |-> FALSE, data |-> JNull, error |-> error, methods |-> "err"]

\* ok(data): a new object on the heap, and the reference to it.
ok(h, data) == Return(Append(h, OkObject(data)), JRef(Len(h) + 1), <<>>)

\* err(error)
err(h, error) == Return(Append(h, ErrObject(error)), JRef(Len(h) + 1), <<>>)

(***************************************************************************)
(* The functions a caller passes in.  A callable is a record of its name   *)
(* and of the value its closure captured.                                  *)
(*   identity   v => v                                                     *)
(*   next       v => the value after v in the caller's list of values      *)
(*   nextTwice  v => next(next(v)), the composition of next with itself    *)
(*   toOk       v => ok(v)                                                 *)
(*   toErr      v => err(v)                                                *)
(*   captured   _ => r, r a Result built before the call                   *)
(*   returns    () => c                                                    *)
(*   throws     _ => { throw s }                                           *)
(*   okMap      () => ok(x).map(_ => { throw s })                          *)
(*   okAndThen  () => ok(x).andThen(_ => { throw s })                      *)
(*   errMapErr  () => err(x).mapErr(_ => { throw s })                      *)
(***************************************************************************)
\* The caller's list of values, cyclically: null, 0, "", false, "e", null, ...
\* Any other value is mapped to null.
NextValue(x) ==
    CASE x = JNull -> JNum(0)
      [] x = JNum(0) -> JStr("")
      [] x = JStr("") -> JBool(FALSE)
      [] x = JBool(FALSE) -> JStr("e")
      [] OTHER -> JNull

Fn(name, cap) == [name |-> name, cap |-> cap]
NoFn == Fn("none", JUndefined)

Invocation(f, x) == <<[fn |-> f, arg |-> x]>>

\* f(x): the outcome of the call, logged as one invocation of f with x.
Call(h, f, x) ==
    LET lg == Invocation(f, x)
    IN CASE f.name = "identity" -> Return(h, x, lg)
         [] f.name = "next" -> Return(h, NextValue(x), lg)
         [] f.name = "nextTwice" -> Return(h, NextValue(NextValue(x)), lg)
         [] f.name = "toOk" -> [ok(h, x) EXCEPT !.log = lg]
         [] f.name = "toErr" -> [err(h, x) EXCEPT !.log = lg]
         [] f.name = "captured" -> Return(h, f.cap, lg)
         [] f.name = "returns" -> Return(h, f.cap, lg)
         [] OTHER -> Throw(h, f.cap, lg)

(***************************************************************************)
(* The methods of a value built by ok (src/mod.ts 139-162).  `self` is the *)
(* index of the object; `data` is the constructor's argument, which the    *)
(* object's data field holds.                                              *)
(***************************************************************************)
Ok_isOk(h, self) == TRUE
Ok_isErr(h, self) == FALSE
\* map that overwrites the payload of its receiver and returns the receiver.
Ok_map_inPlace(h, self, fn) ==
    LET c == Call(h, fn, h[self].data)
    IN IF c.kind = "throw" THEN c
       ELSE Return([c.heap EXCEPT ![self].data = c.val], JRef(self), c.log)

\* map that builds its result with err instead of ok.
Ok_map_asErr(h, self, fn) ==
    LET c == Call(h, fn, h[self].data)
    IN IF c.kind = "throw" THEN c ELSE [err(c.heap, c.val) EXCEPT !.log = c.log]

\* ok.map that catches what the callback throws and returns it as an Err.
Ok_map_catching(h, self, fn) ==
    LET c == Call(h, fn, h[self].data)
    IN IF c.kind = "throw"
       THEN [err(c.heap, c.val) EXCEPT !.log = c.log]
       ELSE [ok(c.heap, c.val) EXCEPT !.log = c.log]

Ok_map(h, self, fn) ==
    LET c == Call(h, fn, h[self].data)
    IN IF c.kind = "throw" THEN c ELSE [ok(c.heap, c.val) EXCEPT !.log = c.log]
\* mapErr that refuses an Ok.
Ok_mapErr_refusing(h, self, fn) ==
    Throw(h, JErrorObj("Called mapErr on an Ok value"), <<>>)

Ok_mapErr(h, self, fn) == Return(h, JRef(self), <<>>)
\* andThen that wraps what the callback returned, as map does.
Ok_andThen_wrapping(h, self, fn) ==
    LET c == Call(h, fn, h[self].data)
    IN IF c.kind = "throw" THEN c ELSE [ok(c.heap, c.val) EXCEPT !.log = c.log]

Ok_andThen(h, self, fn) == Call(h, fn, h[self].data)
\* unwrapOr that falls back to the default when the payload is falsy.
Ok_unwrapOr_falsy(h, self, defaultValue) ==
    Return(h, IF Truthy(h[self].data) THEN h[self].data ELSE defaultValue, <<>>)

Ok_unwrapOr(h, self, defaultValue) == Return(h, h[self].data, <<>>)
Ok_unwrap(h, self) == Return(h, h[self].data, <<>>)
Ok_expect(h, self, message) == Return(h, h[self].data, <<>>)

(***************************************************************************)
(* The methods of a value built by err (src/mod.ts 189-214).               *)
(***************************************************************************)
Err_isOk(h, self) == FALSE
Err_isErr(h, self) == TRUE
\* map on an Err that builds a copy of its receiver.
Err_map_copying(h, self, fn) == err(h, h[self].error)

Err_map(h, self, fn) == Return(h, JRef(self), <<>>)
\* mapErr that builds its result with ok instead of err.
Err_mapErr_asOk(h, self, fn) ==
    LET c == Call(h, fn, h[self].error)
    IN IF c.kind = "throw" THEN c ELSE [ok(c.heap, c.val) EXCEPT !.log = c.log]

Err_mapErr(h, self, fn) ==
    LET c == Call(h, fn, h[self].error)
    IN IF c.kind = "throw" THEN c ELSE [err(c.heap, c.val) EXCEPT !.log = c.log]
\* andThen on an Err that calls its callback all the same.
Err_andThen_calling(h, self, fn) == Call(h, fn, h[self].data)

Err_andThen(h, self, fn) == Return(h, JRef(self), <<>>)
Err_unwrapOr(h, self, defaultValue) == Return(h, defaultValue, <<>>)
Err_unwrap(h, self) ==
    Throw(h, JErrorObj("Called unwrap on an Err value: " \o JSONStringify(h[self].error)), <<>>)
\* expect that embeds a string error as it is, without JSON.stringify.
Err_expect_plain(h, self, message) ==
    Throw(h, JErrorObj(message \o ": " \o (IF h[self].error.k = "string"
                                           THEN h[self].error.v
                                           ELSE JSONStringify(h[self].error))), <<>>)

Err_expect(h, self, message) ==
    Throw(h, JErrorObj(message \o ": " \o JSONStringify(h[self].error)), <<>>)

(***************************************************************************)
(* A method call r.m(...): the closure the object carries is the one run.  *)
(***************************************************************************)
isOk(h, r) == IF h[r].methods = "ok" THEN Ok_isOk(h, r) ELSE Err_isOk(h, r)
isErr(h, r) == IF h[r].methods = "ok" THEN Ok_isErr(h, r) ELSE Err_isErr(h, r)
map(h, r, fn) == IF h[r].methods = "ok" THEN Ok_map(h, r, fn) ELSE Err_map(h, r, fn)
mapErr(h, r, fn) == IF h[r].methods = "ok" THEN Ok_mapErr(h, r, fn) ELSE Err_mapErr(h, r, fn)
andThen(h, r, fn) == IF h[r].methods = "ok" THEN Ok_andThen(h, r, fn) ELSE Err_andThen(h, r, fn)
unwrapOr(h, r, d) == IF h[r].methods = "ok" THEN Ok_unwrapOr(h, r, d) ELSE Err_unwrapOr(h, r, d)
unwrap(h, r) == IF h[r].methods = "ok" THEN Ok_unwrap(h, r) ELSE Err_unwrap(h, r)
expect(h, r, m) == IF h[r].methods = "ok" THEN Ok_expect(h, r, m) ELSE Err_expect(h, r, m)

(***************************************************************************)
(* The Result namespace (src/mod.ts 238-514).  `result` is a reference and *)
(* `results` a sequence of references.                                     *)
(***************************************************************************)
\* fn(), for the functions a caller hands to Result.try.  The body of a thunk
\* may itself call the library: it builds a Result from the captured value x
\* and transforms it with a callback that throws the captured signal s.  Its
\* log is the invocation of the thunk followed by those its body caused.
TransformThunkNames == {"okMap", "okAndThen", "errMapErr"}
CallThunk(h, fn) ==
    IF fn.name \in TransformThunkNames
    THEN LET x == fn.cap.v[1]
             g == Fn("throws", fn.cap.v[2])
             r == IF fn.name = "errMapErr" THEN err(h, x) ELSE ok(h, x)
             o == CASE fn.name = "okMap" -> map(r.heap, r.val.v, g)
                    [] fn.name = "okAndThen" -> andThen(r.heap, r.val.v, g)
                    [] OTHER -> mapErr(r.heap, r.val.v, g)
         IN [o EXCEPT !.log = Invocation(fn, JUndefined) \o o.log]
    ELSE Call(h, fn, JUndefined)

\* try { return ok(fn()) } catch (error) { return err(error) }
\* Result.try without its catch clause.
Result_try_uncaught(h, fn) ==
    LET c == CallThunk(h, fn)
    IN IF c.kind = "throw" THEN c ELSE [ok(c.heap, c.val) EXCEPT !.log = c.log]

Result_try(h, fn) ==
    LET c == CallThunk(h, fn)
    IN IF c.kind = "throw"
       THEN [err(c.heap, c.val) EXCEPT !.log = c.log]
       ELSE [ok(c.heap, c.val) EXCEPT !.log = c.log]

Result_map(h, result, fn) ==
    IF isOk(h, result)
    THEN LET c == Call(h, fn, h[result].data)
         IN IF c.kind = "throw" THEN c ELSE [ok(c.heap, c.val) EXCEPT !.log = c.log]
    ELSE Return(h, JRef(result), <<>>)

Result_mapErr(h, result, fn) ==
    IF isErr(h, result)
    THEN LET c == Call(h, fn, h[result].error)
         IN IF c.kind = "throw" THEN c ELSE [err(c.heap, c.val) EXCEPT !.log = c.log]
    ELSE Return(h, JRef(result), <<>>)

\* Result.andThen that wraps what the callback returned, as Result.map does.
Result_andThen_wrapping(h, result, fn) ==
    IF isOk(h, result)
    THEN LET c == Call(h, fn, h[result].data)
         IN IF c.kind = "throw" THEN c ELSE [ok(c.heap, c.val) EXCEPT !.log = c.log]
    ELSE Return(h, JRef(result), <<>>)

Result_andThen(h, result, fn) ==
    IF isOk(h, result)
    THEN Call(h, fn, h[result].data)
    ELSE Return(h, JRef(result), <<>>)

\* Result.unwrapOr that decides by the truthiness of data: data || defaultValue.
Result_unwrapOr_falsy(h, result, defaultValue) ==
    IF Truthy(h[result].data)
    THEN Return(h, h[result].data, <<>>)
    ELSE Return(h, defaultValue, <<>>)

Result_unwrapOr(h, result, defaultValue) ==
    IF isOk(h, result)
    THEN Return(h, h[result].data, <<>>)
    ELSE Return(h, defaultValue, <<>>)

RECURSIVE AllLoop_wrapping(_, _, _, _)
\* Result.all that builds a new Err around the first error it finds.
AllLoop_wrapping(h, results, i, values) ==
    IF i > Len(results)
    THEN [ok(h, JArr(values)) EXCEPT !.seen = [j \in 1..Len(results) |-> j], !.arr = results]
    ELSE IF isErr(h, results[i])
         THEN [err(h, h[results[i]].error) EXCEPT !.seen = [j \in 1..i |-> j], !.arr = results]
         ELSE AllLoop_wrapping(h, results, i + 1, Append(values, h[results[i]].data))

RECURSIVE AllLoop(_, _, _, _)
\* The loop of Result.all from element i on, `values` holding the payloads
\* pushed so far: the first element whose isErr() is true is returned as it is.
AllLoop(h, results, i, values) ==
    IF i > Len(results)
    THEN [ok(h, JArr(values)) EXCEPT !.seen = [j \in 1..Len(results) |-> j], !.arr = results]
    ELSE IF isErr(h, results[i])
         THEN [Return(h, JRef(results[i]), <<>>) EXCEPT !.seen = [j \in 1..i |-> j], !.arr = results]
         ELSE AllLoop(h, results, i + 1, Append(values, h[results[i]].data))

Result_all(h, results) == AllLoop(h, results, 1, <<>>)

Result_unwrap(h, result) == unwrap(h, result)

Result_expect(h, result, message) == expect(h, result, message)

RECURSIVE CollectLoop_stopping(_, _, _, _)
\* collectErrors that stops at the first Err, as Result.all does.
CollectLoop_stopping(h, results, i, errors) ==
    IF i > Len(results)
    THEN [Return(h, JArr(errors), <<>>) EXCEPT !.seen = [j \in 1..Len(results) |-> j], !.arr = results]
    ELSE IF isErr(h, results[i])
         THEN [Return(h, JArr(Append(errors, h[results[i]].error)), <<>>)
                  EXCEPT !.seen = [j \in 1..i |-> j], !.arr = results]
         ELSE CollectLoop_stopping(h, results, i + 1, errors)

RECURSIVE CollectLoop(_, _, _, _)
CollectLoop(h, results, i, errors) ==
    IF i > Len(results)
    THEN [Return(h, JArr(errors), <<>>) EXCEPT !.seen = [j \in 1..Len(results) |-> j], !.arr = results]
    ELSE IF isErr(h, results[i])
         THEN CollectLoop(h, results, i + 1, Append(errors, h[results[i]].error))
         ELSE CollectLoop(h, results, i + 1, errors)

Result_collectErrors(h, results) == CollectLoop(h, results, 1, <<>>)

RECURSIVE PartitionLoop_truthy(_, _, _, _, _)
\* partition that tells the variants apart by the truthiness of data.
PartitionLoop_truthy(h, results, i, successes, failures) ==
    IF i > Len(results)
    THEN [Return(h, JArr(<<JArr(successes), JArr(failures)>>), <<>>)
             EXCEPT !.seen = [j \in 1..Len(results) |-> j], !.arr = results]
    ELSE IF Truthy(h[results[i]].data)
         THEN PartitionLoop_truthy(h, results, i + 1,
                                   Append(successes, h[results[i]].data), failures)
         ELSE PartitionLoop_truthy(h, results, i + 1,
                                   successes, Append(failures, h[results[i]].error))

RECURSIVE PartitionLoop(_, _, _, _, _)
PartitionLoop(h, results, i, successes, failures) ==
    IF i > Len(results)
    THEN [Return(h, JArr(<<JArr(successes), JArr(failures)>>), <<>>)
             EXCEPT !.seen = [j \in 1..Len(results) |-> j], !.arr = results]
    ELSE IF isOk(h, results[i])
         THEN PartitionLoop(h, results, i + 1,
                            Append(successes, h[results[i]].data), failures)
         ELSE PartitionLoop(h, results, i + 1,
                            successes, Append(failures, h[results[i]].error))

Result_partition(h, results) == PartitionLoop(h, results, 1, <<>>, <<>>)

Result_isOk(h, result) == isOk(h, result)

Result_isErr(h, result) == isErr(h, result)

(***************************************************************************)
(* Result.tryAsync (src/mod.ts 269-276).  The function passed in either    *)
(* throws before it returns a promise, or returns a promise that is        *)
(* pending, already fulfilled or already rejected.  The body runs up to    *)
(* the await in the call itself; the rest runs when the awaited promise    *)
(* has settled and the continuation is taken from the microtask queue.     *)
(***************************************************************************)
Pending == [state |-> "pending", val |-> JUndefined]
Fulfilled(x) == [state |-> "fulfilled", val |-> x]
Rejected(x) == [state |-> "rejected", val |-> x]

\* The promise fn() returns.
PromiseOf(fn) ==
    CASE fn.name = "pendingPromise" -> Pending
      [] fn.name = "resolvedPromise" -> Fulfilled(fn.cap)
      [] fn.name = "rejectedPromise" -> Rejected(fn.cap)
      [] OTHER -> Pending

\* The call: `const data = await fn()` inside try.  A synchronous throw of fn
\* is caught and the async function returns err(error) at once.
TryAsync_call(h, fn) ==
    IF fn.name = "throws"
    THEN LET o == err(h, fn.cap)
         IN [heap |-> o.heap,
             promise |-> [fn |-> fn, inner |-> Rejected(fn.cap), pc |-> "done",
                          outer |-> Fulfilled(o.val), settled |-> 1]]
    ELSE [heap |-> h,
          promise |-> [fn |-> fn, inner |-> PromiseOf(fn), pc |-> "await",
                       outer |-> Pending, settled |-> 0]]

\* The continuation without the catch clause: a rejection of the awaited
\* promise rejects the promise of the call.
TryAsync_resume_uncaught(h, p) ==
    IF p.inner.state = "fulfilled"
    THEN LET o == ok(h, p.inner.val)
         IN [heap |-> o.heap,
             promise |-> [p EXCEPT !.pc = "done", !.outer = Fulfilled(o.val),
                                   !.settled = p.settled + 1]]
    ELSE [heap |-> h,
          promise |-> [p EXCEPT !.pc = "done", !.outer = Rejected(p.inner.val),
                                !.settled = p.settled + 1]]

\* The continuation after the await: `return ok(data)`, or the catch clause's
\* `return err(error)` when the awaited promise rejected.
TryAsync_resume(h, p) ==
    LET o == IF p.inner.state = "fulfilled" THEN ok(h, p.inner.val)
             ELSE err(h, p.inner.val)
    IN [heap |-> o.heap,
        promise |-> [p EXCEPT !.pc = "done", !.outer = Fulfilled(o.val),
                              !.settled = p.settled + 1]]

(***************************************************************************)
(* The state machine: a caller that makes one call after another.          *)
(***************************************************************************)
NoCall ==
    [op |-> "none", recv |-> 0, fn |-> NoFn, arg |-> JUndefined, arr |-> <<>>,
     kind |-> "return", val |-> JUndefined, log |-> <<>>, seen |-> <<>>,
     before |-> 0, arrAfter |-> <<>>]

Init ==
    /\ heap = <<>>
    /\ last = NoCall
    /\ promises = <<>>

Refs == 1..Len(heap)

\* The arrays of Results a caller can build from the objects of the heap.
Arrays == UNION {[1..n -> Refs] : n \in 0..MaxLen}

MapFns == {Fn("identity", JUndefined), Fn("next", JUndefined), Fn("nextTwice", JUndefined)}
              \cup {Fn("throws", s) : s \in Signals}

AndThenFns == {Fn("toOk", JUndefined), Fn("toErr", JUndefined)}
                  \cup {Fn("throws", s) : s \in Signals}
                  \cup {Fn("captured", JRef(i)) : i \in Refs}

Thunks == {Fn("returns", x) : x \in Prims} \cup {Fn("throws", s) : s \in Signals}

\* Thunks whose body transforms a Result with a callback that throws.
TransformThunks ==
    {Fn(n, JArr(<<x, s>>)) : n \in TransformThunkNames, x \in Prims, s \in Signals}

AsyncThunks == {Fn("pendingPromise", JUndefined)}
                   \cup {Fn("resolvedPromise", x) : x \in Prims}
                   \cup {Fn("rejectedPromise", s) : s \in Signals}
                   \cup {Fn("throws", s) : s \in Signals}

\* One synchronous call with outcome `out`, made when the caller has taken the
\* outcome of the call before: the heap becomes the call's heap and the call
\* is recorded with its outcome.
Step(op, recv, fn, arg, arr, out) ==
    /\ last.op = "none"
    /\ heap' = out.heap
    /\ last' = [op |-> op, recv |-> recv, fn |-> fn, arg |-> arg, arr |-> arr,
                kind |-> out.kind, val |-> out.val, log |-> out.log,
                seen |-> out.seen, before |-> Len(heap), arrAfter |-> out.arr]
    /\ UNCHANGED promises

CallOk == \E x \in Prims : Step("ok", 0, NoFn, x, <<>>, ok(heap, x))
CallErr == \E e \in Prims : Step("err", 0, NoFn, e, <<>>, err(heap, e))

CallIsOk ==
    \E r \in Refs :
        Step("isOk", r, NoFn, JUndefined, <<>>, Return(heap, JBool(isOk(heap, r)), <<>>))
CallIsErr ==
    \E r \in Refs :
        Step("isErr", r, NoFn, JUndefined, <<>>, Return(heap, JBool(isErr(heap, r)), <<>>))
CallMap ==
    \E r \in Refs, f \in MapFns : Step("map", r, f, JUndefined, <<>>, map(heap, r, f))
CallMapErr ==
    \E r \in Refs, f \in MapFns : Step("mapErr", r, f, JUndefined, <<>>, mapErr(heap, r, f))
CallAndThen ==
    \E r \in Refs, f \in AndThenFns :
        Step("andThen", r, f, JUndefined, <<>>, andThen(heap, r, f))
CallUnwrapOr ==
    \E r \in Refs, d \in Prims : Step("unwrapOr", r, NoFn, d, <<>>, unwrapOr(heap, r, d))
CallUnwrap ==
    \E r \in Refs : Step("unwrap", r, NoFn, JUndefined, <<>>, unwrap(heap, r))
CallExpect ==
    \E r \in Refs, m \in Messages :
        Step("expect", r, NoFn, JStr(m), <<>>, expect(heap, r, m))

CallResultTry ==
    \E f \in Thunks : Step("Result.try", 0, f, JUndefined, <<>>, Result_try(heap, f))
\* Result.try(() => ok(x).map(f)) and its like, f throwing.
CallResultTryOfTransform ==
    \E f \in TransformThunks :
        Step("Result.try of transform", 0, f, JUndefined, <<>>, Result_try(heap, f))
CallResultMap ==
    \E r \in Refs, f \in MapFns :
        Step("Result.map", r, f, JUndefined, <<>>, Result_map(heap, r, f))
CallResultMapErr ==
    \E r \in Refs, f \in MapFns :
        Step("Result.mapErr", r, f, JUndefined, <<>>, Result_mapErr(heap, r, f))
CallResultAndThen ==
    \E r \in Refs, f \in AndThenFns :
        Step("Result.andThen", r, f, JUndefined, <<>>, Result_andThen(heap, r, f))
CallResultUnwrapOr ==
    \E r \in Refs, d \in Prims :
        Step("Result.unwrapOr", r, NoFn, d, <<>>, Result_unwrapOr(heap, r, d))
CallResultAll ==
    \E rs \in Arrays : Step("Result.all", 0, NoFn, JUndefined, rs, Result_all(heap, rs))
CallResultUnwrap ==
    \E r \in Refs :
        Step("Result.unwrap", r, NoFn, JUndefined, <<>>, Result_unwrap(heap, r))
CallResultExpect ==
    \E r \in Refs, m \in Messages :
        Step("Result.expect", r, NoFn, JStr(m), <<>>, Result_expect(heap, r, m))
CallResultCollectErrors ==
    \E rs \in Arrays :
        Step("Result.collectErrors", 0, NoFn, JUndefined, rs, Result_collectErrors(heap, rs))
CallResultPartition ==
    \E rs \in Arrays :
        Step("Result.partition", 0, NoFn, JUndefined, rs, Result_partition(heap, rs))
CallResultIsOk ==
    \E r \in Refs :
        Step("Result.isOk", r, NoFn, JUndefined, <<>>,
             Return(heap, JBool(Result_isOk(heap, r)), <<>>))
CallResultIsErr ==
    \E r \in Refs :
        Step("Result.isErr", r, NoFn, JUndefined, <<>>,
             Return(heap, JBool(Result_isErr(heap, r)), <<>>))

\* Result.tryAsync(fn): the call, up to the await.
CallResultTryAsync ==
    \E f \in AsyncThunks :
        LET c == TryAsync_call(heap, f)
        IN /\ Len(promises) < MaxAsync
           /\ heap' = c.heap
           /\ promises' = Append(promises, c.promise)
           /\ UNCHANGED last

\* The promise fn returned settles: the caller's computation fulfils or rejects it.
SettleInner ==
    \E i \in 1..Len(promises) :
        /\ promises[i].inner.state = "pending"
        /\ \E s \in {Fulfilled(x) : x \in Prims} \cup {Rejected(x) : x \in Signals} :
               promises' = [promises EXCEPT ![i].inner = s]
        /\ UNCHANGED <<heap, last>>

\* The continuation of a suspended call runs.
ResumeTryAsync ==
    \E i \in 1..Len(promises) :
        /\ promises[i].pc = "await"
        /\ promises[i].inner.state # "pending"
        /\ LET c == TryAsync_resume(heap, promises[i])
           IN /\ heap' = c.heap
              /\ promises' = [promises EXCEPT ![i] = c.promise]
        /\ UNCHANGED last

\* The caller takes the outcome of the call and keeps the objects it built.
\* The heap is bounded: the objects are kept only when they fit.
Keep ==
    /\ last.op # "none"
    /\ Len(heap) <= MaxHeap
    /\ last' = NoCall
    /\ UNCHANGED <<heap, promises>>

\* The caller takes the outcome and drops the objects the call built: no
\* reference to them is left, and they are gone.
Discard ==
    /\ last.op # "none"
    /\ last' = NoCall
    /\ heap' = SubSeq(heap, 1, last.before)
    /\ UNCHANGED promises

\* The synchronous surface.
Next ==
    \/ Keep
    \/ Discard
    \/ CallOk
    \/ CallErr
    \/ CallIsOk
    \/ CallIsErr
    \/ CallMap
    \/ CallMapErr
    \/ CallAndThen
    \/ CallUnwrapOr
    \/ CallUnwrap
    \/ CallExpect
    \/ CallResultTry
    \/ CallResultTryOfTransform
    \/ CallResultMap
    \/ CallResultMapErr
    \/ CallResultAndThen
    \/ CallResultUnwrapOr
    \/ CallResultAll
    \/ CallResultUnwrap
    \/ CallResultExpect
    \/ CallResultCollectErrors
    \/ CallResultPartition
    \/ CallResultIsOk
    \/ CallResultIsErr

Spec == Init /\ [][Next]_vars

\* Result.tryAsync and the settling of promises.  The event loop runs every
\* continuation that is ready, so ResumeTryAsync is weakly fair.
AsyncNext ==
    \/ CallResultTryAsync
    \/ SettleInner
    \/ ResumeTryAsync

AsyncSpec == Init /\ [][AsyncNext]_vars /\ WF_vars(ResumeTryAsync)

(***************************************************************************)
(* Chains: r.map(f).andThen(g)...  Each call is made on the Result the     *)
(* call before returned.  A chain starts with ok or err and ends when a    *)
(* call throws.                                                            *)
(***************************************************************************)
ChainStep(op, fn, out) ==
    /\ last.op # "none"
    /\ last.kind = "return"
    /\ IsRef(last.val)
    /\ Len(out.heap) <= MaxChain
    /\ heap' = out.heap
    /\ last' = [op |-> op, recv |-> last.val.v, fn |-> fn, arg |-> JUndefined,
                arr |-> <<>>, kind |-> out.kind, val |-> out.val, log |-> out.log,
                seen |-> out.seen, before |-> Len(heap), arrAfter |-> out.arr]
    /\ UNCHANGED promises

ChainMap ==
    \E f \in MapFns :
        /\ IsRef(last.val)
        /\ ChainStep("map", f, map(heap, last.val.v, f))
ChainMapErr ==
    \E f \in MapFns :
        /\ IsRef(last.val)
        /\ ChainStep("mapErr", f, mapErr(heap, last.val.v, f))
ChainAndThen ==
    \E f \in AndThenFns :
        /\ IsRef(last.val)
        /\ ChainStep("andThen", f, andThen(heap, last.val.v, f))

ChainNext ==
    \/ CallOk
    \/ CallErr
    \/ ChainMap
    \/ ChainMapErr
    \/ ChainAndThen

ChainSpec == Init /\ [][ChainNext]_vars

(***************************************************************************)
(* Properties.  In a state reached by a call, `last` holds the call and    *)
(* its outcome, the objects the call built are those above last.before,    *)
(* and the heap the call started from is the part below.                   *)
(***************************************************************************)
Called(ops) == last.op \in ops
Receiver == heap[last.recv]
Returned == last.kind = "return"
Thrown == last.kind = "throw"
\* The value returned is a reference to an object the call built.
ReturnedFresh == Returned /\ IsRef(last.val) /\ last.val.v > last.before
\* The call built exactly n objects.
Built(n) == Len(heap) = last.before + n
\* The call invoked f once, with x, and nothing else.
InvokedOnce(f, x) == last.log = <<[fn |-> f, arg |-> x]>>
NotInvoked == last.log = <<>>
\* The elements of the array handed to the call.
Elements == [i \in 1..Len(last.arr) |-> heap[last.arr[i]]]
IsSuccess(o) == o.success = TRUE
IsFailure(o) == o.success = FALSE
PayloadsOf(objs) == [i \in 1..Len(objs) |-> objs[i].data]
ErrorsOf(objs) == [i \in 1..Len(objs) |-> objs[i].error]
UpTo(n) == [j \in 1..n |-> j]

\* C1: ok(x) is a value with success = true, data = x, error = null, isOk()
\* true and isErr() false; err(e) is a value with success = false, data =
\* null, error = e, isErr() true and isOk() false; x and e are stored as given.
C1_Constructors ==
    /\ Called({"ok"}) =>
           /\ ReturnedFresh /\ Built(1) /\ NotInvoked
           /\ heap[last.val.v].success = TRUE
           /\ heap[last.val.v].data = last.arg
           /\ heap[last.val.v].error = JNull
           /\ isOk(heap, last.val.v) = TRUE
           /\ isErr(heap, last.val.v) = FALSE
    /\ Called({"err"}) =>
           /\ ReturnedFresh /\ Built(1) /\ NotInvoked
           /\ heap[last.val.v].success = FALSE
           /\ heap[last.val.v].data = JNull
           /\ heap[last.val.v].error = last.arg
           /\ isErr(heap, last.val.v) = TRUE
           /\ isOk(heap, last.val.v) = FALSE

\* ok("e") has been called and the heap holds its object.
C1_Witness ==
    /\ Called({"ok"})
    /\ last.arg = JStr("e")
    /\ heap[last.val.v].data = JStr("e")

\* The indices of the Err elements of the array handed to the call.
FailureIndices == {i \in 1..Len(last.arr) : IsFailure(Elements[i])}
FirstFailure == CHOOSE i \in FailureIndices : \A j \in FailureIndices : i <= j

\* C2: Result.all walks the array in index order; with an Err among the
\* elements it returns the Err at the smallest index, the same object, and
\* inspects no element after it; with none it returns a new Ok whose data is
\* the sequence of all payloads in order (the empty sequence for []).
C2_All ==
    Called({"Result.all"}) =>
        /\ Returned /\ NotInvoked
        /\ IF FailureIndices # {}
           THEN /\ last.val = JRef(last.arr[FirstFailure])
                /\ last.seen = UpTo(FirstFailure)
                /\ Built(0)
           ELSE /\ ReturnedFresh /\ Built(1)
                /\ IsSuccess(heap[last.val.v])
                /\ heap[last.val.v].data = JArr(PayloadsOf(Elements))
                /\ heap[last.val.v].error = JNull
                /\ last.seen = UpTo(Len(last.arr))

\* Result.all on two distinct Err objects with different errors: the first
\* is returned.
C2_Witness ==
    /\ Called({"Result.all"})
    /\ Len(last.arr) = 2
    /\ last.arr[1] # last.arr[2]
    /\ IsFailure(Elements[1]) /\ IsFailure(Elements[2])
    /\ Elements[1].error # Elements[2].error
    /\ last.val = JRef(last.arr[1])

\* C3: ok(x).map(f) invokes f exactly once, with x, and returns a new Ok
\* whose data is the value f returned; err(e).mapErr(f) invokes f exactly
\* once, with e, and returns a new Err whose error is the value f returned.
C3_MapOnMatchingVariant ==
    /\ (Called({"map"}) /\ IsSuccess(Receiver)) =>
           /\ InvokedOnce(last.fn, Receiver.data)
           /\ last.fn.name = "identity" =>
                  /\ ReturnedFresh /\ Built(1)
                  /\ IsSuccess(heap[last.val.v])
                  /\ heap[last.val.v].data = Receiver.data
           /\ last.fn.name = "next" =>
                  /\ ReturnedFresh /\ Built(1)
                  /\ IsSuccess(heap[last.val.v])
                  /\ heap[last.val.v].data = NextValue(Receiver.data)
    /\ (Called({"mapErr"}) /\ IsFailure(Receiver)) =>
           /\ InvokedOnce(last.fn, Receiver.error)
           /\ last.fn.name = "identity" =>
                  /\ ReturnedFresh /\ Built(1)
                  /\ IsFailure(heap[last.val.v])
                  /\ heap[last.val.v].error = Receiver.error
           /\ last.fn.name = "next" =>
                  /\ ReturnedFresh /\ Built(1)
                  /\ IsFailure(heap[last.val.v])
                  /\ heap[last.val.v].error = NextValue(Receiver.error)

\* err(0).mapErr(next) has returned an Err whose error is "".
C3_Witness ==
    /\ Called({"mapErr"})
    /\ IsFailure(Receiver)
    /\ Receiver.error = JNum(0)
    /\ last.fn.name = "next"
    /\ Returned
    /\ heap[last.val.v].error = JStr("")

\* C4: a transformation applied to the other variant never invokes its
\* callback and passes the value through: err(e).map(f) and err(e).andThen(f)
\* yield an Err with error e, ok(x).mapErr(f) yields an Ok with data x, also
\* for an f that would throw.
C4_PassThrough ==
    /\ (Called({"map", "andThen"}) /\ IsFailure(Receiver)) =>
           /\ Returned /\ NotInvoked /\ IsRef(last.val)
           /\ IsFailure(heap[last.val.v])
           /\ heap[last.val.v].error = Receiver.error
    /\ (Called({"mapErr"}) /\ IsSuccess(Receiver)) =>
           /\ Returned /\ NotInvoked /\ IsRef(last.val)
           /\ IsSuccess(heap[last.val.v])
           /\ heap[last.val.v].data = Receiver.data

\* err("e").andThen(f), f a function that throws, has returned.
C4_Witness ==
    /\ Called({"andThen"})
    /\ IsFailure(Receiver)
    /\ Receiver.error = JStr("e")
    /\ last.fn.name = "throws"
    /\ Returned

\* C5: ok(x).andThen(f) returns exactly the Result f returned, not wrapped:
\* the object f captured when f returns one built before, and otherwise the
\* one object f built, an Ok or an Err.
C5_AndThenFlattens ==
    (Called({"andThen"}) /\ IsSuccess(Receiver)) =>
        /\ InvokedOnce(last.fn, Receiver.data)
        /\ last.fn.name = "captured" =>
               Returned /\ last.val = last.fn.cap /\ Built(0)
        /\ last.fn.name = "toOk" =>
               /\ ReturnedFresh /\ Built(1)
               /\ IsSuccess(heap[last.val.v])
               /\ heap[last.val.v].data = Receiver.data
        /\ last.fn.name = "toErr" =>
               /\ ReturnedFresh /\ Built(1)
               /\ IsFailure(heap[last.val.v])
               /\ heap[last.val.v].error = Receiver.data

\* ok(x).andThen(f) has returned the Err object that f captured.
C5_Witness ==
    /\ Called({"andThen"})
    /\ IsSuccess(Receiver)
    /\ last.fn.name = "captured"
    /\ last.fn.cap # JRef(last.recv)
    /\ IsFailure(heap[last.fn.cap.v])
    /\ last.val = last.fn.cap

\* The JSON text of the values the callers use as errors, written out.
ExpectedJSON(e) ==
    CASE e = JNull -> "null"
      [] e = JNum(0) -> "0"
      [] e = JStr("") -> "\"\""
      [] e = JBool(FALSE) -> "false"
      [] e = JStr("e") -> "\"e\""
      [] e = JErrorObj("boom") -> "{}"
      [] OTHER -> "?"

HasExpectedJSON(e) == e \in Prims \cup Signals

UnwrapOps == {"unwrap", "expect", "Result.unwrap", "Result.expect"}
CallbackOps == {"map", "mapErr", "andThen", "Result.map", "Result.mapErr", "Result.andThen"}

\* C7 as stated: a call throws only if it is unwrap or expect applied to
\* an Err; every other call of the surface completes without a throw.
C7_OnlyUnwrapThrows ==
    Thrown => (Called(UnwrapOps) /\ IsFailure(Receiver))

\* C7, amended: a call throws only if it is unwrap or expect applied to an
\* Err, or if it is map, mapErr or andThen whose callback was invoked and
\* threw, and then what is thrown is what the callback threw; a call whose
\* callbacks do not throw completes without a throw, and no call throws for
\* being applied to the other variant.
C7_OnlyUnwrapOrCallbackThrows ==
    Thrown =>
        \/ Called(UnwrapOps) /\ IsFailure(Receiver)
        \/ /\ Called(CallbackOps)
           /\ last.fn.name = "throws"
           /\ last.val = last.fn.cap
           /\ InvokedOnce(last.fn, IF Called({"mapErr", "Result.mapErr"})
                                   THEN Receiver.error ELSE Receiver.data)
           /\ IF Called({"mapErr", "Result.mapErr"})
              THEN IsFailure(Receiver) ELSE IsSuccess(Receiver)

\* Result.all on an array of two Err values has completed without a throw.
C7_Witness ==
    /\ Called({"Result.all"})
    /\ Len(last.arr) = 2
    /\ IsFailure(Elements[1]) /\ IsFailure(Elements[2])
    /\ Returned

\* C8: Result.try(fn) invokes fn exactly once and returns normally: an Ok
\* with data v when fn returns v, an Err whose error is s when fn throws s.
C8_Try ==
    Called({"Result.try"}) =>
        /\ ReturnedFresh /\ Built(1)
        /\ InvokedOnce(last.fn, JUndefined)
        /\ last.fn.name = "returns" =>
               /\ IsSuccess(heap[last.val.v])
               /\ heap[last.val.v].data = last.fn.cap
               /\ heap[last.val.v].error = JNull
        /\ last.fn.name = "throws" =>
               /\ IsFailure(heap[last.val.v])
               /\ heap[last.val.v].error = last.fn.cap
               /\ heap[last.val.v].data = JNull

\* Result.try of a function that throws has returned an Err holding the signal.
C8_Witness ==
    /\ Called({"Result.try"})
    /\ last.fn.name = "throws"
    /\ Returned
    /\ heap[last.val.v].error = JErrorObj("boom")

\* The promise of call i of tryAsync, once settled, is fulfilled with a
\* Result that matches how fn's computation ended.
AsyncOutcomeRight(p) ==
    /\ p.outer.state # "rejected"
    /\ p.settled <= 1
    /\ (p.outer.state = "pending") = (p.settled = 0)
    /\ p.outer.state = "fulfilled" =>
           /\ IsRef(p.outer.val)
           /\ p.inner.state \in {"fulfilled", "rejected"}
           /\ p.inner.state = "fulfilled" =>
                  /\ IsSuccess(heap[p.outer.val.v])
                  /\ heap[p.outer.val.v].data = p.inner.val
           /\ p.inner.state = "rejected" =>
                  /\ IsFailure(heap[p.outer.val.v])
                  /\ heap[p.outer.val.v].error = p.inner.val
    /\ p.fn.name = "throws" =>
           /\ p.outer.state = "fulfilled"
           /\ heap[p.outer.val.v].error = p.fn.cap

AsyncStateRight == \A i \in 1..Len(promises) : AsyncOutcomeRight(promises[i])

\* A promise that has settled keeps its state and its value.
AsyncSettledStays ==
    \A i \in 1..Len(promises) :
        promises[i].outer.state # "pending" =>
            /\ promises'[i].outer = promises[i].outer
            /\ promises'[i].settled = promises[i].settled
            /\ heap'[promises[i].outer.val.v] = heap[promises[i].outer.val.v]

AsyncInnerSettled(i) == i <= Len(promises) /\ promises[i].inner.state # "pending"
AsyncOuterFulfilled(i) == i <= Len(promises) /\ promises[i].outer.state = "fulfilled"

\* C9: the promise Result.tryAsync returns never rejects and settles at most
\* once; it fulfils with Ok(v) when fn's promise fulfils with v, and with
\* Err(r) when fn's promise rejects with r or fn throws r before returning a
\* promise; and once fn's computation has settled it eventually fulfils.
C9_TryAsync ==
    /\ []AsyncStateRight
    /\ [][AsyncSettledStays]_vars
    /\ \A i \in 1..MaxAsync : AsyncInnerSettled(i) ~> AsyncOuterFulfilled(i)

\* A call whose fn returned a pending promise that later rejected has
\* fulfilled with an Err.
C9_Witness ==
    \E i \in 1..Len(promises) :
        /\ promises[i].fn.name = "pendingPromise"
        /\ promises[i].inner.state = "rejected"
        /\ promises[i].outer.state = "fulfilled"
        /\ IsFailure(heap[promises[i].outer.val.v])

\* C10: Result.partition traverses the whole array once and returns
\* [successes, failures]: the payloads of the Ok elements and the errors of
\* the Err elements, each in their original relative order; the two lengths
\* add up to the length of the array, and partition([]) is [[], []].
C10_Partition ==
    Called({"Result.partition"}) =>
        /\ Returned /\ NotInvoked /\ Built(0)
        /\ last.seen = UpTo(Len(last.arr))
        /\ last.val = JArr(<<JArr(PayloadsOf(SelectSeq(Elements, IsSuccess))),
                             JArr(ErrorsOf(SelectSeq(Elements, IsFailure)))>>)
        /\ Len(last.val.v[1].v) + Len(last.val.v[2].v) = Len(last.arr)
        /\ last.arr = <<>> => last.val = JArr(<<JArr(<<>>), JArr(<<>>)>>)

\* partition of two Ok values with different payloads, the falsy one first.
C10_Witness ==
    /\ Called({"Result.partition"})
    /\ Len(last.arr) = 2
    /\ IsSuccess(Elements[1]) /\ IsSuccess(Elements[2])
    /\ Elements[1].data = JNull
    /\ Elements[2].data = JStr("e")
    /\ last.val = JArr(<<JArr(<<JNull, JStr("e")>>), JArr(<<>>)>>)

\* C11: Result.collectErrors inspects every element of the array, without
\* stopping at the first Err, and returns the errors of all Err elements in
\* their original relative order; Ok elements contribute nothing, so the
\* result is empty exactly when no element is an Err.
C11_CollectErrors ==
    Called({"Result.collectErrors"}) =>
        /\ Returned /\ NotInvoked /\ Built(0)
        /\ last.seen = UpTo(Len(last.arr))
        /\ last.val = JArr(ErrorsOf(SelectSeq(Elements, IsFailure)))
        /\ (last.val = JArr(<<>>)) = (\A i \in 1..Len(last.arr) : IsSuccess(Elements[i]))

\* collectErrors of two Err values with different errors has returned both,
\* in order.
C11_Witness ==
    /\ Called({"Result.collectErrors"})
    /\ Len(last.arr) = 2
    /\ IsFailure(Elements[1]) /\ IsFailure(Elements[2])
    /\ Elements[1].error = JStr("e")
    /\ Elements[2].error = JNull
    /\ last.val = JArr(<<JStr("e"), JNull>>)

\* C12: ok(x).unwrapOr(d) returns x and err(e).unwrapOr(d) returns d, for
\* every x, e and d.
C12_UnwrapOr ==
    /\ (Called({"unwrapOr"}) /\ IsSuccess(Receiver)) =>
           Returned /\ last.val = Receiver.data /\ NotInvoked /\ Built(0)
    /\ (Called({"unwrapOr"}) /\ IsFailure(Receiver)) =>
           Returned /\ last.val = last.arg /\ NotInvoked /\ Built(0)

\* err("e").unwrapOr(0) has returned 0.
C12_Witness ==
    /\ Called({"unwrapOr"})
    /\ IsFailure(Receiver)
    /\ Receiver.error = JStr("e")
    /\ last.arg = JNum(0)
    /\ last.val = JNum(0)

\* The heap the call recorded in `last` started from.
Before == SubSeq(heap, 1, last.before)

\* The call recorded in `last` ended as the outcome o: the same value returned
\* or thrown, the same invocations of the callback, the same objects built.
SameOutcome(o) ==
    /\ last.kind = o.kind
    /\ last.val = o.val
    /\ last.log = o.log
    /\ heap = o.heap

\* C13: each free function of the Result namespace behaves as the method of
\* the same name on its first argument: the same value returned, the same
\* invocations of the callback with the same argument, and a throw in the
\* same cases with the same message.
C13_FreeFunctionsAsMethods ==
    /\ Called({"Result.map"}) => SameOutcome(map(Before, last.recv, last.fn))
    /\ Called({"Result.mapErr"}) => SameOutcome(mapErr(Before, last.recv, last.fn))
    /\ Called({"Result.andThen"}) => SameOutcome(andThen(Before, last.recv, last.fn))
    /\ Called({"Result.unwrapOr"}) => SameOutcome(unwrapOr(Before, last.recv, last.arg))
    /\ Called({"Result.unwrap"}) => SameOutcome(unwrap(Before, last.recv))
    /\ Called({"Result.expect"}) => SameOutcome(expect(Before, last.recv, last.arg.v))
    /\ Called({"Result.isOk"}) =>
           SameOutcome(Return(Before, JBool(isOk(Before, last.recv)), <<>>))
    /\ Called({"Result.isErr"}) =>
           SameOutcome(Return(Before, JBool(isErr(Before, last.recv)), <<>>))

\* Result.andThen on an Ok has returned the Err its callback built, as the
\* method does.
C13_Witness ==
    /\ Called({"Result.andThen"})
    /\ IsSuccess(Receiver)
    /\ last.fn.name = "toErr"
    /\ ReturnedFresh
    /\ IsFailure(heap[last.val.v])

\* Two Result objects are observationally equal: the same variant, the same
\* payload and the same error.
SameValue(o1, o2) ==
    /\ o1.success = o2.success
    /\ o1.data = o2.data
    /\ o1.error = o2.error

\* The pairs <<f, g>> of pure callbacks whose composition v => g(f(v)) is the
\* callback c.
ComposedOf(c) ==
    CASE c.name = "identity" -> {<<Fn("identity", JUndefined), Fn("identity", JUndefined)>>}
      [] c.name = "next" -> {<<Fn("identity", JUndefined), Fn("next", JUndefined)>>,
                             <<Fn("next", JUndefined), Fn("identity", JUndefined)>>}
      [] c.name = "nextTwice" -> {<<Fn("next", JUndefined), Fn("next", JUndefined)>>}
      [] OTHER -> {}

\* The object r.map(f).map(g) ends with, r a reference into the heap h.
MapMapValue(h, r, f, g) ==
    LET a == map(h, r, f)
        b == map(a.heap, a.val.v, g)
    IN b.heap[b.val.v]

\* C14: map satisfies the functor laws: r.map(v => v) has the same variant
\* and the same payload/error as r, for every Result r; and
\* ok(x).map(v => g(f(v))) has the same variant and payload as
\* ok(x).map(f).map(g), for pure f and g.
C14_FunctorLaws ==
    /\ (Called({"map"}) /\ last.fn.name = "identity") =>
           /\ Returned /\ IsRef(last.val)
           /\ SameValue(heap[last.val.v], Receiver)
    /\ (Called({"map"}) /\ IsSuccess(Receiver)) =>
           \A p \in ComposedOf(last.fn) :
               /\ Returned /\ IsRef(last.val)
               /\ SameValue(heap[last.val.v], MapMapValue(Before, last.recv, p[1], p[2]))

\* ok("").map(v => next(next(v))) has returned an Ok of "e", the payload of
\* ok("").map(next).map(next).
C14_Witness ==
    /\ Called({"map"})
    /\ IsSuccess(Receiver)
    /\ Receiver.data = JStr("")
    /\ last.fn.name = "nextTwice"
    /\ Returned
    /\ heap[last.val.v].data = JStr("e")
    /\ IsSuccess(heap[last.val.v])

\* Every object of the heap that is still there after the step is as it was.
HeapUnchanged ==
    \A i \in 1..Len(heap) : i <= Len(heap') => heap'[i] = heap[i]

\* The array handed to the call the step made is left as it was handed in.
ArrayUnchanged == last'.op # "none" => last'.arrAfter = last'.arr

\* C15: no operation mutates a Result that already exists: after any call
\* the success, data and error of the receiver, of every element of the
\* input array and of every Result returned before are unchanged, and the
\* input array has the same elements in the same order.
C15_NoMutation == [][HeapUnchanged /\ ArrayUnchanged]_vars

\* ok(0).map(next) has returned a new Ok of "" and the receiver still holds 0.
C15_Witness ==
    /\ Called({"map"})
    /\ IsSuccess(Receiver)
    /\ last.fn.name = "next"
    /\ ReturnedFresh
    /\ Receiver.data = JNum(0)
    /\ heap[last.val.v].data = JStr("")

MapOps == {"map", "Result.map"}
MapErrOps == {"mapErr", "Result.mapErr"}
AndThenOps == {"andThen", "Result.andThen"}
TransformOps == MapOps \cup MapErrOps \cup AndThenOps

\* C16 as stated: every transformation that returns, returns a Result object
\* that is newly constructed, not the receiver.
C16_AlwaysNew ==
    (Called(TransformOps) /\ Returned) =>
        ReturnedFresh /\ last.val # JRef(last.recv)

\* C16, amended: map on an Ok and mapErr on an Err (methods and free
\* functions) return a newly constructed Result; map and andThen on an Err
\* and mapErr on an Ok return the receiver itself and build nothing; andThen
\* on an Ok returns the object its callback returned, new only when the
\* callback built it.
C16_NewOnMatchingVariant ==
    /\ (Called(MapOps) /\ IsSuccess(Receiver) /\ Returned) =>
           ReturnedFresh /\ Built(1) /\ last.val # JRef(last.recv)
    /\ (Called(MapErrOps) /\ IsFailure(Receiver) /\ Returned) =>
           ReturnedFresh /\ Built(1) /\ last.val # JRef(last.recv)
    /\ (Called(MapOps \cup AndThenOps) /\ IsFailure(Receiver)) =>
           Returned /\ last.val = JRef(last.recv) /\ Built(0)
    /\ (Called(MapErrOps) /\ IsSuccess(Receiver)) =>
           Returned /\ last.val = JRef(last.recv) /\ Built(0)
    /\ (Called(AndThenOps) /\ IsSuccess(Receiver) /\ Returned) =>
           /\ last.fn.name = "captured" => last.val = last.fn.cap /\ Built(0)
           /\ last.fn.name \in {"toOk", "toErr"} => ReturnedFresh /\ Built(1)

\* err("e").map(next) has returned its receiver.
C16_Witness ==
    /\ Called({"map"})
    /\ IsFailure(Receiver)
    /\ Receiver.error = JStr("e")
    /\ last.fn.name = "next"
    /\ last.val = JRef(last.recv)

\* C17: for an Err holding a string error e, expect(message) throws an
\* Error whose message is exactly message + ': ' + e, with the text of e
\* embedded as it is.
C17_ExpectPlainText ==
    (Called({"expect", "Result.expect"}) /\ IsFailure(Receiver)
         /\ Receiver.error.k = "string") =>
        /\ Thrown
        /\ last.val = JErrorObj(last.arg.v \o ": " \o Receiver.error.v)

\* The falsy values: null, 0, '' and false.
Falsy == {JNull, JNum(0), JStr(""), JBool(FALSE)}
FalsyOk(o) == IsSuccess(o) /\ o.data \in Falsy
FalsyErr(o) == IsFailure(o) /\ o.error \in Falsy

\* C18: the variant is decided from the discriminant, never from whether the
\* payload or error is present or truthy.  For a falsy payload x, ok(x) has
\* isOk() true, unwrapOr(d) returns x, map(f) calls f(x), Result.all keeps x
\* in its output and Result.partition puts x among the successes; for a falsy
\* error e, err(e) has isErr() true, Result.all returns it as the failure,
\* and Result.collectErrors and Result.partition include e among the errors.
C18_DiscriminantDecides ==
    /\ (Called({"isOk", "Result.isOk"}) /\ FalsyOk(Receiver)) => last.val = JBool(TRUE)
    /\ (Called({"isErr", "Result.isErr"}) /\ FalsyOk(Receiver)) => last.val = JBool(FALSE)
    /\ (Called({"isErr", "Result.isErr"}) /\ FalsyErr(Receiver)) => last.val = JBool(TRUE)
    /\ (Called({"isOk", "Result.isOk"}) /\ FalsyErr(Receiver)) => last.val = JBool(FALSE)
    /\ (Called({"unwrapOr", "Result.unwrapOr"}) /\ FalsyOk(Receiver)) =>
           last.val = Receiver.data
    /\ (Called({"unwrapOr", "Result.unwrapOr"}) /\ FalsyErr(Receiver)) =>
           last.val = last.arg
    /\ (Called({"map", "Result.map"}) /\ FalsyOk(Receiver)) =>
           InvokedOnce(last.fn, Receiver.data)
    /\ (Called({"map", "Result.map"}) /\ FalsyErr(Receiver)) => NotInvoked
    /\ Called({"Result.all"}) =>
           /\ (\E i \in 1..Len(last.arr) : FalsyErr(Elements[i])) =>
                  Returned /\ IsRef(last.val) /\ IsFailure(heap[last.val.v])
           /\ (\A i \in 1..Len(last.arr) : IsSuccess(Elements[i])) =>
                  /\ ReturnedFresh
                  /\ Len(heap[last.val.v].data.v) = Len(last.arr)
                  /\ \A i \in 1..Len(last.arr) :
                         heap[last.val.v].data.v[i] = Elements[i].data
           /\ (FailureIndices # {} /\ FalsyErr(Elements[FirstFailure])) =>
                  last.val = JRef(last.arr[FirstFailure])
    /\ Called({"Result.collectErrors"}) =>
           /\ Len(last.val.v) = Cardinality(FailureIndices)
           /\ \A i \in 1..Len(last.arr) :
                  FalsyErr(Elements[i]) =>
                      \E j \in 1..Len(last.val.v) : last.val.v[j] = Elements[i].error
    /\ Called({"Result.partition"}) =>
           /\ Len(last.val.v[2].v) = Cardinality(FailureIndices)
           /\ Len(last.val.v[1].v) = Len(last.arr) - Cardinality(FailureIndices)
           /\ \A i \in 1..Len(last.arr) :
                  /\ FalsyOk(Elements[i]) =>
                         \E j \in 1..Len(last.val.v[1].v) :
                             last.val.v[1].v[j] = Elements[i].data
                  /\ FalsyErr(Elements[i]) =>
                         \E j \in 1..Len(last.val.v[2].v) :
                             last.val.v[2].v[j] = Elements[i].error

\* Result.unwrapOr(ok(false), "e") has returned false.
C18_Witness ==
    /\ Called({"Result.unwrapOr"})
    /\ IsSuccess(Receiver)
    /\ Receiver.data = JBool(FALSE)
    /\ last.arg = JStr("e")
    /\ last.val = JBool(FALSE)

\* The object at index i of the heap is a well-formed Ok or a well-formed Err.
WellFormed(i) ==
    /\ heap[i].success \in {TRUE, FALSE}
    /\ heap[i].success = TRUE =>
           heap[i].error = JNull /\ isOk(heap, i) = TRUE /\ isErr(heap, i) = FALSE
    /\ heap[i].success = FALSE =>
           heap[i].data = JNull /\ isErr(heap, i) = TRUE /\ isOk(heap, i) = FALSE
    /\ isOk(heap, i) # isErr(heap, i)

\* C19: every Result value built by ok, err and Result.try, by any sequence
\* of map, mapErr and andThen calls on them, and by Result.all satisfies:
\* success = true implies error = null, isOk() and not isErr(); success =
\* false implies data = null, isErr() and not isOk(); so isOk() and isErr()
\* are never both true and never both false.
C19_VariantInvariant == \A i \in 1..Len(heap) : WellFormed(i)

\* An Err built by mapErr from an Err that is still on the heap.
C19_Witness ==
    /\ Called({"mapErr"})
    /\ IsFailure(Receiver)
    /\ ReturnedFresh
    /\ IsFailure(heap[last.val.v])
    /\ heap[last.val.v].data = JNull

\* The chain has a current value: the Result the call before returned.
HasCurrent == last.op # "none" /\ last.kind = "return" /\ IsRef(last.val)
CurrentIsErr == HasCurrent /\ IsFailure(heap[last.val.v])
CurrentIsOk == HasCurrent /\ IsSuccess(heap[last.val.v])

\* The step is a call of map, mapErr or andThen on the current value.
ChainCall == HasCurrent /\ last'.op \in {"map", "mapErr", "andThen"}

\* C20: in a chain of map, mapErr and andThen calls Err is absorbing: once
\* the current value is an Err every later value is an Err, no callback of a
\* later map or andThen is invoked, and the error changes only at mapErr
\* steps.  map and mapErr never change the variant of their receiver; the
\* only step that changes the variant is andThen on an Ok, to an Err; no
\* step turns an Err into an Ok.
C20_ErrAbsorbing ==
    [][ChainCall =>
          /\ CurrentIsErr =>
                 /\ last'.kind = "return" => CurrentIsErr'
                 /\ last'.op \in {"map", "andThen"} =>
                        /\ last'.log = <<>>
                        /\ last'.kind = "return"
                        /\ heap'[last'.val.v].error = heap[last.val.v].error
          /\ (last'.op \in {"map", "mapErr"} /\ last'.kind = "return") =>
                 heap'[last'.val.v].success = heap[last.val.v].success
          /\ (last'.kind = "return"
                  /\ heap'[last'.val.v].success # heap[last.val.v].success) =>
                 last'.op = "andThen" /\ CurrentIsOk /\ CurrentIsErr'
      ]_vars

\* A chain that started with an Ok, became an Err at an andThen, and then
\* passed a map whose callback throws: the value is still the Err.
C20_Witness ==
    /\ Called({"map"})
    /\ Len(heap) >= 2
    /\ IsSuccess(heap[1])
    /\ IsFailure(Receiver)
    /\ last.recv > 1
    /\ last.fn.name = "throws"
    /\ CurrentIsErr

AggregationOps == {"Result.all", "Result.collectErrors", "Result.partition"}

\* The three aggregations applied to the array of the recorded call, on the
\* heap the call started from; the one that was called is taken as recorded.
Recorded == [kind |-> last.kind, val |-> last.val, heap |-> heap]
AllOfArray ==
    IF Called({"Result.all"}) THEN Recorded ELSE Result_all(Before, last.arr)
ErrorsOfArray ==
    IF Called({"Result.collectErrors"}) THEN Recorded
    ELSE Result_collectErrors(Before, last.arr)
PartitionOfArray ==
    IF Called({"Result.partition"}) THEN Recorded
    ELSE Result_partition(Before, last.arr)

\* C21: on every array rs of Results the three aggregations agree:
\* Result.collectErrors(rs) equals the second component of
\* Result.partition(rs); Result.all(rs) is an Err exactly when that sequence
\* is non-empty, and then its error is the first element of the sequence;
\* otherwise Result.all(rs) is an Ok whose data equals the first component of
\* Result.partition(rs).
C21_AggregationsAgree ==
    Called(AggregationOps) =>
        LET a == AllOfArray
            c == ErrorsOfArray
            p == PartitionOfArray
            all == a.heap[a.val.v]
        IN /\ a.kind = "return" /\ c.kind = "return" /\ p.kind = "return"
           /\ IsRef(a.val)
           /\ c.val.k = "array"
           /\ p.val.k = "array" /\ Len(p.val.v) = 2
           /\ c.val = p.val.v[2]
           /\ IsFailure(all) = (c.val.v # <<>>)
           /\ IsFailure(all) => all.error = c.val.v[1]
           /\ ~IsFailure(all) => IsSuccess(all) /\ all.data = p.val.v[1]

\* An Ok followed by an Err has been partitioned, and Result.all of the same
\* array is that Err.
C21_Witness ==
    /\ Called({"Result.partition"})
    /\ Len(last.arr) = 2
    /\ IsSuccess(Elements[1]) /\ IsFailure(Elements[2])
    /\ Elements[1].data = JStr("")
    /\ Elements[2].error = JStr("e")
    /\ last.val = JArr(<<JArr(<<JStr("")>>), JArr(<<JStr("e")>>)>>)
    /\ AllOfArray.val = JRef(last.arr[2])

\* The call handed the receiver's payload (its error, for mapErr) to a
\* callback that throws.
CallbackThrew ==
    /\ Called(CallbackOps)
    /\ last.fn.name = "throws"
    /\ IF Called(MapErrOps) THEN IsFailure(Receiver) ELSE IsSuccess(Receiver)

\* The Result the body of the thunk of the recorded call built.
InnerResult == heap[last.before + 1]
InnerCallback == Fn("throws", last.fn.cap.v[2])

\* C22: a throw raised by a callback is not converted into an Err by the
\* transformation that calls it: when f throws s, ok(x).map(f),
\* ok(x).andThen(f), err(e).mapErr(f) and the matching free functions return
\* no Result, build none, and s reaches the caller unchanged.  A throw
\* becomes an Err only inside Result.try: Result.try of a thunk that throws s
\* returns Err with error s, and so does Result.try(() => ok(x).map(f)),
\* where the throw of f passes through map and is caught by try.
C22_ThrowsPassThrough ==
    /\ CallbackThrew =>
           /\ Thrown
           /\ last.val = last.fn.cap
           /\ Built(0)
           /\ InvokedOnce(last.fn, IF Called(MapErrOps)
                                   THEN Receiver.error ELSE Receiver.data)
    /\ (Returned /\ last.log # <<>> /\ last.log[Len(last.log)].fn.name = "throws") =>
           /\ Called({"Result.try", "Result.try of transform"})
           /\ ReturnedFresh
           /\ IsFailure(heap[last.val.v])
           /\ heap[last.val.v].error = last.log[Len(last.log)].fn.cap
    /\ Called({"Result.try of transform"}) =>
           /\ ReturnedFresh /\ Built(2)
           /\ last.val.v = last.before + 2
           /\ InnerResult = IF last.fn.name = "errMapErr"
                            THEN ErrObject(last.fn.cap.v[1])
                            ELSE OkObject(last.fn.cap.v[1])
           /\ last.log = Invocation(last.fn, JUndefined)
                             \o Invocation(InnerCallback, last.fn.cap.v[1])
           /\ heap[last.val.v] = ErrObject(last.fn.cap.v[2])

\* Result.try(() => ok("e").map(f)), f throwing boom, has returned an Err
\* whose error is boom.
C22_Witness ==
    /\ Called({"Result.try of transform"})
    /\ last.fn.name = "okMap"
    /\ last.fn.cap.v[1] = JStr("e")
    /\ Returned
    /\ InnerResult.data = JStr("e")
    /\ heap[last.val.v].success = FALSE
    /\ heap[last.val.v].error = JErrorObj("boom")

====
